---- MODULE Spec2Model ----
(***************************************************************************)
(* Riftlands AI DM (src/main.py): the startup command-registry sync and   *)
(* the scene commands.                                                     *)
(*                                                                         *)
(* The program registers its slash commands on the module-level command    *)
(* tree (the @bot.tree.command decorators) and, in RiftlandsBot.setup_hook,*)
(* pushes that tree to the platform with a single `await self.tree.sync()` *)
(* (no guild argument: the global scope) and prints how many records came  *)
(* back.  main() refuses to start without a token and catches whatever     *)
(* bot.run raises, prints it and returns.                                  *)
(*                                                                         *)
(* The platform is outside the program.  It is modelled by what the        *)
(* program can observe of it: a registry per scope, and for each bulk      *)
(* replace either a failure (RemoteUnavailable) or the records it reports  *)
(* back, which may be fewer than were pushed.                              *)
(*                                                                         *)
(* The bot keeps its per-guild state in riftlands_state.json: it loads the *)
(* file when it is constructed and saves it after every change, so a       *)
(* process may start with entries an earlier one left.                     *)
(*                                                                         *)
(* Three specifications share the module: Spec is the startup (one or more *)
(* process starts, the scene state left alone), SpecScene is the running   *)
(* bot handling commands and messages of two guilds (the startup state     *)
(* left alone), and SpecLoss is SpecScene started at the moment a scene    *)
(* resolution is suspended at the send of its narration.                   *)
(***************************************************************************)
EXTENDS Naturals, Integers, Sequences, FiniteSets, TLC

VARIABLES
    \* ---- startup
    pc,         \* position of the process: "start", "setup_hook", "connected",
                \* "ready", "exited"
    run,        \* which process start this is (1 = first start)
    token,      \* TOKEN is set (line 30)
    cfg_guild,  \* the deployment's optional guild id (configuration surface of
                \* the sync protocol); main.py never reads it
    remote,     \* the platform's registry: scope -> set of command names
    calls,      \* every call made on the platform's command API, in order
    reports,    \* what setup_hook obtained and printed, one entry per sync
    outcome,    \* how each process start ended so far: run -> outcome
    tree,       \* bot.tree: the names of the commands registered on it
    in_flight,  \* number of sync runs started and not yet returned or raised
    readies,    \* READY events dispatched to on_ready in this process start
    \* ---- scene commands
    key,        \* OPENAI_KEY is set (line 31)
    api,        \* what the chat-completion API does when it is called
    narrator,   \* bot.narrator: [use_ai, client]
    state,      \* bot.state: guild -> its entry (present = FALSE: no entry)
    heap,       \* the scene objects (dicts) and action lists (seqs), by id
    posts,      \* guild -> what was sent to its log channel, in order
    tasks,      \* the handler invocations suspended at an await, and the
                \* finished ones
    last,       \* the event handled by the last step
    last_set,   \* guild -> what /narration last set there ("unset" if never)
    nevents     \* events received since the initial state

start_vars == <<pc, run, token, cfg_guild, remote, calls, reports, outcome,
                tree, in_flight, readies>>

scene_vars == <<key, api, narrator, state, heap, posts, tasks, last, last_set,
                nevents>>

vars == <<start_vars, scene_vars>>

----------------------------------------------------------------------------
(* Bounds *)

\* Process starts modelled (a second start is "running the sync again").
MaxRuns == 2

\* READY events per process start (the gateway may send more than one).
MaxReady == 2

----------------------------------------------------------------------------
(* The program's constants *)

\* The commands the decorators register on bot.tree, by name.
Declared ==
    { "check", "attack", "act", "start", "resolve", "recap",
      "narration", "force-resolve", "scene-status" }

\* A command an earlier deployment left registered; not declared any more.
Stale == "legacy-roll"

Names == Declared \cup {Stale}

Global == "Global"
Guild == "Guild"
Scopes == {Global, Guild}

\* The optional guild id: no id, or one id.
NoGuild == {}
GuildConfigs == { NoGuild, {1} }

\* The attempt budget the sync protocol's documentation gives as default.
max_attempts == 3

\* The wait after the clear phase the sync protocol's documentation gives as
\* default, in time units.
propagation_delay == 10

----------------------------------------------------------------------------
(* The platform, as the program can observe it *)

\* What a bulk replace of `payload` may report back: all of it, none of it,
\* or all but one command (names expected but missing), with or without a
\* name that was not pushed and is not declared (present but unexpected).
Responses(payload) ==
    { kept \cup extra :
        kept \in {payload, {}} \cup { payload \ {n} : n \in payload },
        extra \in SUBSET (Names \ Declared) }

\* Registries an earlier deployment may have left behind in a scope.
InitialRegistries == { {}, {Stale}, Declared }

----------------------------------------------------------------------------
(* Helpers over the call log *)

Runs == 1..MaxRuns

ReplaceCallsOf(r) == SelectSeq(calls, LAMBDA c : c.run = r /\ c.op = "replace")

ReportsOf(r) == SelectSeq(reports, LAMBDA p : p.run = r)

----------------------------------------------------------------------------
(* The startup *)

\* The scopes the startup sync targets: tree.sync() is called with no guild
\* argument, whatever the deployment configures.
resolve_scopes(cfg) == <<Global>>

\* Module import when the construction raises: load_state returned a JSON
\* value that is not an object, `self.state.keys()` raises AttributeError and
\* the import of the module ends there.
StartFailed ==
    /\ pc = "exited"
    /\ run = 1
    /\ token \in BOOLEAN
    /\ cfg_guild \in GuildConfigs
    /\ remote \in [Scopes -> InitialRegistries]
    /\ calls = <<>>
    /\ reports = <<>>
    /\ outcome = [r \in Runs |-> IF r = 1 THEN "import_error" ELSE "none"]
    /\ tree = {}
    /\ in_flight = 0
    /\ readies = 0

\* Module import and construction (bot = RiftlandsBot()), before main().
StartInit ==
    /\ pc = "start"
    /\ run = 1
    /\ token \in BOOLEAN
    /\ cfg_guild \in GuildConfigs
    /\ remote \in [Scopes -> InitialRegistries]
    /\ calls = <<>>
    /\ reports = <<>>
    /\ outcome = [r \in Runs |-> "none"]
    /\ tree = Declared
    /\ in_flight = 0
    /\ readies = 0

\* main(): without a token, print the error and return; otherwise bot.run,
\* which logs in and calls setup_hook.
main ==
    /\ pc = "start"
    /\ IF token
         THEN /\ pc' = "setup_hook"
              /\ in_flight' = in_flight + 1
              /\ UNCHANGED outcome
         ELSE /\ pc' = "exited"
              /\ outcome' = [outcome EXCEPT ![run] = "no_token"]
              /\ UNCHANGED in_flight
    /\ UNCHANGED <<run, token, cfg_guild, remote, calls, reports, tree, readies>>
    /\ UNCHANGED scene_vars

\* Variant of setup_hook that syncs again for as long as the platform reports
\* no records, without an attempt budget.
setup_hook_retry ==
    /\ pc = "setup_hook"
    /\ \E resp \in Responses(tree) :
          /\ calls' = Append(calls,
                 [run |-> run, op |-> "replace", scope |-> Global,
                  payload |-> tree, ok |-> TRUE, records |-> resp])
          /\ remote' = [remote EXCEPT ![Global] = resp]
          /\ IF resp = {}
               THEN /\ pc' = "setup_hook"
                    /\ UNCHANGED <<reports, in_flight>>
               ELSE /\ pc' = "connected"
                    /\ in_flight' = in_flight - 1
                    /\ reports' = Append(reports,
                           [run |-> run, cmds |-> resp,
                            line |-> [synced |-> Cardinality(resp),
                                      scope |-> Global]])
    /\ UNCHANGED <<run, token, cfg_guild, outcome, tree, readies>>
    /\ UNCHANGED scene_vars

\* Variant of setup_hook that syncs again until the platform reports exactly
\* the names on the tree.
setup_hook_verify_retry ==
    /\ pc = "setup_hook"
    /\ \E resp \in Responses(tree) :
          /\ calls' = Append(calls,
                 [run |-> run, op |-> "replace", scope |-> Global,
                  payload |-> tree, ok |-> TRUE, records |-> resp])
          /\ remote' = [remote EXCEPT ![Global] = resp]
          /\ IF resp # tree
               THEN /\ pc' = "setup_hook"
                    /\ UNCHANGED <<reports, in_flight>>
               ELSE /\ pc' = "connected"
                    /\ in_flight' = in_flight - 1
                    /\ reports' = Append(reports,
                           [run |-> run, cmds |-> resp,
                            line |-> [synced |-> Cardinality(resp),
                                      scope |-> Global]])
    /\ UNCHANGED <<run, token, cfg_guild, outcome, tree, readies>>
    /\ UNCHANGED scene_vars

\* Variant of setup_hook that upserts command by command instead of
\* overwriting the scope, and reports what the scope then holds.
setup_hook_upsert ==
    /\ pc = "setup_hook"
    /\ \E resp \in Responses(tree) :
          LET held == remote[Global] \cup resp
          IN /\ calls' = Append(calls,
                    [run |-> run, op |-> "replace", scope |-> Global,
                     payload |-> tree, ok |-> TRUE, records |-> resp])
             /\ remote' = [remote EXCEPT ![Global] = held]
             /\ reports' = Append(reports,
                    [run |-> run, cmds |-> held,
                     line |-> [synced |-> Cardinality(held),
                               scope |-> Global]])
             /\ pc' = "connected"
             /\ in_flight' = in_flight - 1
    /\ UNCHANGED <<run, token, cfg_guild, outcome, tree, readies>>
    /\ UNCHANGED scene_vars

\* Variant of setup_hook that keeps only the records of commands the scope
\* did not hold before the push (a push of the difference).
setup_hook_delta ==
    /\ pc = "setup_hook"
    /\ \E resp \in Responses(tree) :
          LET fresh == resp \ remote[Global]
          IN /\ calls' = Append(calls,
                    [run |-> run, op |-> "replace", scope |-> Global,
                     payload |-> tree, ok |-> TRUE, records |-> resp])
             /\ remote' = [remote EXCEPT ![Global] = resp]
             /\ reports' = Append(reports,
                    [run |-> run, cmds |-> fresh,
                     line |-> [synced |-> Cardinality(fresh),
                               scope |-> Global]])
             /\ pc' = "connected"
             /\ in_flight' = in_flight - 1
    /\ UNCHANGED <<run, token, cfg_guild, outcome, tree, readies>>
    /\ UNCHANGED scene_vars

\* Variant of setup_hook that empties the tree once it has been pushed.
setup_hook_clear_tree ==
    /\ pc = "setup_hook"
    /\ \E resp \in Responses(tree) :
          /\ calls' = Append(calls,
                 [run |-> run, op |-> "replace", scope |-> Global,
                  payload |-> tree, ok |-> TRUE, records |-> resp])
          /\ remote' = [remote EXCEPT ![Global] = resp]
          /\ reports' = Append(reports,
                 [run |-> run, cmds |-> resp,
                  line |-> [synced |-> Cardinality(resp),
                            scope |-> Global]])
          /\ tree' = {}
          /\ pc' = "connected"
          /\ in_flight' = in_flight - 1
    /\ UNCHANGED <<run, token, cfg_guild, outcome, readies>>
    /\ UNCHANGED scene_vars

\* setup_hook: cmds = await self.tree.sync(); print(len(cmds)).
\* The sync either raises, and nothing in setup_hook, discord's login or
\* bot.run catches it before main's `except Exception`, which prints and
\* returns; or it returns the records the platform reports.
setup_hook ==
    /\ pc = "setup_hook"
    /\ LET scope == Head(resolve_scopes(cfg_guild))
           payload == tree
       IN \/ /\ calls' = Append(calls,
                    [run |-> run, op |-> "replace", scope |-> scope,
                     payload |-> payload, ok |-> FALSE, records |-> {}])
             /\ pc' = "exited"
             /\ outcome' = [outcome EXCEPT ![run] = "run_error"]
             /\ UNCHANGED <<remote, reports>>
          \/ \E resp \in Responses(payload) :
                /\ calls' = Append(calls,
                       [run |-> run, op |-> "replace", scope |-> scope,
                        payload |-> payload, ok |-> TRUE, records |-> resp])
                /\ remote' = [remote EXCEPT ![scope] = resp]
                /\ reports' = Append(reports,
                       [run |-> run, cmds |-> resp,
                        line |-> [synced |-> Cardinality(resp),
                                  scope |-> Global]])
                /\ pc' = "connected"
                /\ UNCHANGED outcome
    /\ in_flight' = in_flight - 1
    /\ UNCHANGED <<run, token, cfg_guild, tree, readies>>
    /\ UNCHANGED scene_vars

\* Variant of on_ready that syncs the tree from the READY handler: the sync
\* is started on every READY event and awaited.
on_ready_sync ==
    /\ pc \in {"connected", "ready"}
    /\ readies < MaxReady
    /\ readies' = readies + 1
    /\ in_flight' = in_flight + 1
    /\ pc' = "ready"
    /\ UNCHANGED <<run, token, cfg_guild, remote, calls, reports, outcome, tree>>
    /\ UNCHANGED scene_vars

\* on_ready: print the login line and set the presence.  The gateway may
\* dispatch READY more than once in a process start.
on_ready ==
    /\ pc \in {"connected", "ready"}
    /\ readies < MaxReady
    /\ readies' = readies + 1
    /\ pc' = "ready"
    /\ UNCHANGED <<run, token, cfg_guild, remote, calls, reports, outcome,
                   tree, in_flight>>
    /\ UNCHANGED scene_vars

\* The bot is closed (the operator interrupts it): bot.run returns normally.
close ==
    /\ pc \in {"connected", "ready"}
    /\ pc' = "exited"
    /\ outcome' = [outcome EXCEPT ![run] = "closed"]
    /\ UNCHANGED <<run, token, cfg_guild, remote, calls, reports, tree,
                   in_flight, readies>>
    /\ UNCHANGED scene_vars

\* The operator starts the program again: `if __name__ == "__main__": main()`.
\* The module is imported afresh: the state file is loaded again (the bot
\* is the only writer of it, so it holds what the bot held), and the
\* decorators register the commands on a new tree.  When the last import
\* ended in the construction, the file is the same and it does so again.
restart ==
    /\ pc = "exited"
    /\ run < MaxRuns
    /\ run' = run + 1
    /\ readies' = 0
    /\ IF outcome[run] = "import_error"
         THEN /\ pc' = "exited"
              /\ outcome' = [outcome EXCEPT ![run + 1] = "import_error"]
              /\ tree' = {}
         ELSE /\ pc' = "start"
              /\ tree' = Declared
              /\ UNCHANGED outcome
    /\ UNCHANGED <<token, cfg_guild, remote, calls, reports, in_flight>>
    /\ UNCHANGED scene_vars

----------------------------------------------------------------------------
(* The scene commands: data *)

\* Handler invocations modelled (commands, messages and pin updates).
MaxEvents == 2

\* The guilds the bot serves, by id, and the users who act in them.
GuildIds == {7, 12}
Players == {"ann"}
Titles == {"Ambush"}

\* What a message says: nothing but blanks, a player's move, or the prefix
\* command the bot's default help command answers.
Contents == {"", "move", "!help"}

\* The roll an /act asks for: none; a check without a skill name (the handler
\* asks for it and returns); a roll that is made; a roll whose expression has
\* a die of no sides (random.randint(1, 0) raises ValueError).
Rolls == {"none", "no_skill", "ok", "raises"}

\* The user's sheet when /act looks it up: cached, or not cached with no
\* channel of the guild that matches the user and whose message history may
\* be read (fetch_pinned_sheet_texts awaits nothing), or not cached with one
\* (it awaits that channel's pins).
Sheets == {"cached", "no_channel", "channel"}

\* The guild's #adventure-log when /start posts the scene there: no such
\* channel, one that takes the message, one that refuses it (the send raises).
LogChannels == {"none", "sent", "refused"}

\* get_channel(guild, "dice-checks"): no such channel, one that is not the
\* guild's log channel, or one that is (a guild without #adventure-log whose
\* resolutions are used in #dice-checks).
DiceChannels == {"none", "other", "log"}

\* A message, as on_message reads it: written by a bot, in a guild, in
\* #player-actions, in the guild's log channel, and what it says.  A field
\* the handler does not get to is FALSE or empty: nothing of a message it
\* ignores, and the channel's being the log channel only for a "!help".
Messages ==
    { m \in [author_bot : BOOLEAN, guild : BOOLEAN, in_actions : BOOLEAN,
              in_log : BOOLEAN, content : Contents] :
        /\ (m.author_bot \/ ~m.guild) =>
               (~m.in_actions /\ ~m.in_log /\ m.content = "")
        /\ m.content # "!help" => ~m.in_log }

\* An /act, as act_cmd reads it: used in a guild, the roll asked for, the
\* user's sheet and the #dice-checks channel.  A field the handler does not
\* get to is at "none" or "cached": the roll in a direct message, the sheet
\* and the channel without a roll, the channel when no detail is sent.
Acts ==
    { a \in [guild : BOOLEAN, roll : Rolls, sheet : Sheets,
              dice : DiceChannels] :
        /\ ~a.guild => a.roll = "none"
        /\ a.roll = "none" => a.sheet = "cached"
        /\ a.roll # "ok" => a.dice = "none" }

\* A /check or an /attack, as the handlers read it: the roll expression has
\* a die of no sides, the command is used in a guild, the #dice-checks
\* channel, and the command's channel is the guild's log channel.  A field
\* the handler does not get to is FALSE or "none": the channels when the
\* roll raises or in a direct message, the command's channel when the guild
\* has a #dice-checks.
RollCmds ==
    { r \in [bad_roll : BOOLEAN, guild : BOOLEAN, dice : DiceChannels,
              in_log : BOOLEAN] :
        /\ (r.bad_roll \/ ~r.guild) => (r.dice = "none" /\ ~r.in_log)
        /\ r.dice # "none" => ~r.in_log }

\* Python's None where a text is expected.
None == "<None>"

\* What the chat-completion API does when it is called: it returns a text,
\* returns an empty text, raises, or takes more than the 15 s allowed.
ApiAnswers == {"text", "empty", "raise", "timeout"}

\* An interaction, as is_gm reads it: sent in a guild, by its owner, by a
\* cached member, who has Manage Guild, who has a role named GM.  A field
\* that is_gm does not get to read is left FALSE.
Interactions ==
    { i \in [guild : BOOLEAN, owner : BOOLEAN, member : BOOLEAN,
              manage : BOOLEAN, gm_role : BOOLEAN] :
        /\ ~i.guild => ~i.owner
        /\ (~i.guild \/ i.owner) => ~i.member
        /\ ~i.member => ~i.manage
        /\ (~i.member \/ i.manage) => ~i.gm_role }

Digits == <<"0", "1", "2", "3", "4", "5", "6", "7", "8", "9">>

\* str(n) for a natural number.
RECURSIVE str(_)
str(n) ==
    IF n < 10 THEN Digits[n + 1]
    ELSE str(n \div 10) \o Digits[(n % 10) + 1]

\* The keys bot.state can hold for the guilds served.
StateKeys == { str(g) : g \in GuildIds }

\* Variant of gid that files every guild under one key.
gid_shared(guild_id) == str(7)

\* gstate_for: gid = str(guild_id), the key of a guild's entry.
gid(guild_id) == str(guild_id)

NoEntry ==
    [present |-> FALSE, ai |-> FALSE, scene |-> 0, archive |-> <<>>,
     sheets |-> {}]

\* Narrator.__init__: use_ai needs the import, the key and a client.
Narrator(enable_ai, api_key, ctor_ok) ==
    LET wanted == enable_ai /\ api_key
    IN [use_ai |-> wanted /\ ctor_ok, client |-> wanted /\ ctor_ok]

\* is_gm: no guild, the owner, Manage Guild, or a role named GM.
is_gm(inter) ==
    IF ~inter.guild THEN TRUE
    ELSE IF inter.owner THEN TRUE
    ELSE IF ~inter.member THEN FALSE
    ELSE IF inter.manage THEN TRUE
    ELSE inter.gm_role

Falsy(text) == text \in {None, ""}

\* Narrator.ai_narrate.  With a client, `_call` is an `async def` handed to
\* run_in_executor: the executor calls it and gets its coroutine object, the
\* API is never called, and `resp.choices` raises AttributeError, which the
\* method's `except Exception` turns into None, whatever the API would answer.
ai_narrate(nar, answer) ==
    IF ~nar.use_ai \/ ~nar.client
      THEN [raised |-> FALSE, text |-> None]
      ELSE [raised |-> FALSE, text |-> None]

\* The last n elements of a sequence (seq[-n:]).
LastN(seq, n) ==
    IF Len(seq) <= n THEN seq ELSE SubSeq(seq, Len(seq) - n + 1, Len(seq))

\* The names of a sequence of actions, in order of first appearance.
RECURSIVE FirstNames(_)
FirstNames(acts) ==
    IF acts = <<>> THEN <<>>
    ELSE LET front == SubSeq(acts, 1, Len(acts) - 1)
             nm == acts[Len(acts)].name
             before == FirstNames(front)
         IN IF \E i \in DOMAIN before : before[i] = nm
              THEN before ELSE Append(before, nm)

\* The content of the last action of a player.
LastContent(acts, nm) ==
    LET idx == { i \in DOMAIN acts : acts[i].name = nm }
    IN acts[CHOOSE i \in idx : \A j \in idx : j <= i].content

\* Narrator.fallback_narrate: the title (or "Scene"), then one line per
\* player of the last 20 actions, with that player's last action.
fallback_narrate(scene_title, acts) ==
    LET recent == LastN(acts, 20)
        names == FirstNames(recent)
    IN [kind |-> "fallback",
        title |-> IF scene_title = "" THEN "Scene" ELSE scene_title,
        lines |-> [i \in DOMAIN names |->
                      <<names[i], LastContent(recent, names[i])>>],
        text |-> ""]

\* narration[:500], the archived summary.
summary_of(narration) == [upto |-> 500, of |-> narration]

\* gstate_for on the entries st and the objects h: the entry of key k is
\* created with its defaults when absent.  The value is the entries and the
\* objects after the call.
gstate_for(st, h, k) ==
    IF st[k].present THEN [state |-> st, heap |-> h]
    ELSE [state |-> [st EXCEPT ![k] =
                       [present |-> TRUE, ai |-> key,
                        scene |-> Len(h.dicts) + 1,
                        archive |-> <<>>, sheets |-> {}]],
          heap |-> [dicts |-> Append(h.dicts,
                                 [title |-> "", list |-> Len(h.seqs) + 1]),
                    seqs |-> Append(h.seqs, <<>>)]]

\* gstate_for(bot.state, guild.id): bot.state, and the scene objects and
\* action lists, after the call.
G_state(k) == gstate_for(state, heap, k).state

G_heap(k) == gstate_for(state, heap, k).heap

\* g["current_scene"].setdefault("actions", []).append(action) on heap h.
AppendAction(st, h, k, action) ==
    LET l == h.dicts[st[k].scene].list
    IN [h EXCEPT !.seqs[l] = Append(@, action)]

\* g["current_scene"]["actions"] = [] on heap h: a new list object.
ResetActions(st, h, k) ==
    [dicts |-> [h.dicts EXCEPT ![st[k].scene].list = Len(h.seqs) + 1],
     seqs |-> Append(h.seqs, <<>>)]

NoTask ==
    [kind |-> "none", guild |-> 0, pc |-> "none",
     scene |-> 0, list |-> 0, title |-> "",
     narration |-> [kind |-> "none", title |-> "", lines |-> <<>>, text |-> ""],
     ai_read |-> FALSE, set_at_read |-> "unset", user |-> "", rest |-> "none"]

NoEvent == [guild |-> 0, reply |-> "none"]

\* What riftlands_state.json is when the module is imported: missing, not
\* parseable, a JSON value that is not an object, or what the bot saved in
\* an earlier run: here an entry for guild 7 with a scene titled "Old", one
\* logged action and AI narration off or on.
StateFiles == {"missing", "garbled", "array", "saved_off", "saved_on"}

\* load_state: {} without a file or when it does not parse, otherwise the
\* value in the file, whatever it is (object: FALSE for the array).  A loaded
\* entry is made of new objects.
load_state(f) ==
    IF f \in {"saved_off", "saved_on"}
      THEN [object |-> TRUE,
            state |-> [k \in StateKeys |->
                         IF k = str(7)
                           THEN [present |-> TRUE, ai |-> (f = "saved_on"),
                                 scene |-> 1, archive |-> <<>>, sheets |-> {}]
                           ELSE NoEntry],
            heap |-> [dicts |-> << [title |-> "Old", list |-> 1] >>,
                      seqs |-> << << [name |-> "ann", content |-> 0] >> >>]]
      ELSE [object |-> (f # "array"),
            state |-> [k \in StateKeys |-> NoEntry],
            heap |-> [dicts |-> <<>>, seqs |-> <<>>]]

----------------------------------------------------------------------------
(* The scene commands: handlers *)

Running == pc \in {"connected", "ready"}

\* What the last handler step was about: the guild it served and how it
\* ended ("refused" is the reply of a GM-only command to someone else).
Event(g, r) == [guild |-> g, reply |-> r]

\* Construction: self.state = load_state(); Narrator(USE_OPENAI, OPENAI_KEY).
SceneInit(f) ==
    /\ key \in BOOLEAN
    /\ \E use_openai \in BOOLEAN, ctor_ok \in BOOLEAN :
          narrator = Narrator(use_openai, key, ctor_ok)
    /\ api \in (IF narrator.client THEN ApiAnswers ELSE {"unused"})
    /\ state = load_state(f).state
    /\ heap = load_state(f).heap
    /\ posts = [g \in GuildIds |-> <<>>]
    /\ tasks = <<>>
    /\ last = NoEvent
    /\ last_set = [g \in GuildIds |-> "unset"]
    /\ nevents = 0

\* A message, /act or pin-update invocation that has returned or raised: its
\* locals are gone.
Finished(task) ==
    [NoTask EXCEPT !.kind = task.kind, !.guild = task.guild, !.pc = "done"]

\* What is sent to the guild's log channel, by no resolution.
Post(g, kind) == [posts EXCEPT ![g] = Append(@, [kind |-> kind, by |-> 0])]

\* on_message: ignore bots and direct messages; log a non-blank message of
\* #player-actions as an action of the current scene, save and react to it;
\* then hand the message to process_commands, where the default help command
\* of commands.Bot answers "!help" with the help page, sent to the channel of
\* the message, which may be the guild's log channel.  The
\* handler is suspended at `await message.add_reaction` between the two.
on_message(g, m, nm) ==
    /\ Running
    /\ nevents < MaxEvents
    /\ nevents' = nevents + 1
    /\ IF m.author_bot \/ ~m.guild
         THEN /\ last' = Event(g, "ignored")
              /\ UNCHANGED <<state, heap, posts, tasks>>
         ELSE IF m.in_actions /\ m.content # ""
         THEN LET k == gid(g)
                  st == G_state(k)
                  h == G_heap(k)
              IN /\ state' = st
                 /\ heap' = AppendAction(st, h, k,
                                [name |-> nm, content |-> nevents + 1])
                 /\ UNCHANGED posts
                 /\ IF m.content = "!help" /\ m.in_log
                      THEN /\ tasks' = Append(tasks,
                                 [NoTask EXCEPT !.kind = "message",
                                                !.guild = g, !.pc = "react"])
                           /\ last' = Event(g, "awaiting")
                      ELSE /\ UNCHANGED tasks
                           /\ last' = Event(g, "ok")
         ELSE /\ posts' = IF m.content = "!help" /\ m.in_log
                            THEN Post(g, "help")
                            ELSE posts
              /\ last' = Event(g, "ignored")
              /\ UNCHANGED <<state, heap, tasks>>
    /\ UNCHANGED <<key, api, narrator, last_set>>
    /\ UNCHANGED start_vars

\* on_message resumed after the reaction: process_commands sends the help
\* page to the channel of the message, the guild's log channel.
process_commands(t) ==
    /\ Running
    /\ tasks[t].kind = "message"
    /\ tasks[t].pc = "react"
    /\ posts' = Post(tasks[t].guild, "help")
    /\ tasks' = [tasks EXCEPT ![t] = Finished(tasks[t])]
    /\ last' = Event(tasks[t].guild, "ok")
    /\ UNCHANGED <<key, api, narrator, state, heap, last_set, nevents>>
    /\ UNCHANGED start_vars

\* index_user_sheet, from its return of fetch_pinned_sheet_texts on:
\* g["sheets_cache"][str(user.id)] = parsed on the entry g the handler holds,
\* and save.  The value is bot.state afterwards.
index_user_sheet(st, k, nm) == [st EXCEPT ![k].sheets = @ \cup {nm}]

\* What act_cmd does once it has the sheet: "raises" when roll_expr raises,
\* "post" when the roll's detail lines are sent to a #dice-checks that is the
\* guild's log channel, "quiet" when they go elsewhere or into the reply, or
\* when a check names no skill.
act_rest(roll, dice) ==
    IF roll = "raises" THEN "raises"
    ELSE IF roll = "ok" /\ dice = "log" THEN "post"
    ELSE "quiet"

\* act_cmd: log the description as an action of the current scene and save.
\* With a roll and nothing cached for the user, index_user_sheet is called:
\* when a channel of the guild matches the user, the handler is suspended at
\* `await ch.pins()` and caches the sheet when it is resumed; when none
\* matches, nothing is awaited and the cache is written at once.  Then the
\* roll is made and its detail sent to #dice-checks, if the guild has one.
act_cmd(g, a, nm) ==
    /\ Running
    /\ nevents < MaxEvents
    /\ nevents' = nevents + 1
    /\ IF ~a.guild
         THEN /\ last' = Event(g, "raised")
              /\ UNCHANGED <<state, heap, posts, tasks>>
         ELSE LET k == gid(g)
                  st == G_state(k)
                  h == G_heap(k)
                  rest == act_rest(a.roll, a.dice)
              IN /\ heap' = AppendAction(st, h, k,
                                [name |-> nm, content |-> nevents + 1])
                 /\ IF a.roll = "none"
                      THEN /\ state' = st
                           /\ last' = Event(g, "ok")
                           /\ UNCHANGED <<posts, tasks>>
                      ELSE IF a.sheet = "channel"
                      THEN /\ state' = st
                           /\ tasks' = Append(tasks,
                                 [NoTask EXCEPT !.kind = "act", !.guild = g,
                                                !.pc = "index", !.user = nm,
                                                !.rest = rest])
                           /\ last' = Event(g, "awaiting")
                           /\ UNCHANGED posts
                      ELSE /\ state' = IF a.sheet = "no_channel"
                                         THEN index_user_sheet(st, k, nm)
                                         ELSE st
                           /\ posts' = IF rest = "post"
                                         THEN Post(g, "roll") ELSE posts
                           /\ last' = Event(g, IF rest = "raises"
                                                 THEN "raised" ELSE "ok")
                           /\ UNCHANGED tasks
    /\ UNCHANGED <<key, api, narrator, last_set>>
    /\ UNCHANGED start_vars

\* act_cmd resumed in index_user_sheet: the sheet is cached, then the roll is
\* made and its detail sent.
act_cmd_resume(t) ==
    /\ Running
    /\ tasks[t].kind = "act"
    /\ tasks[t].pc = "index"
    /\ LET g == tasks[t].guild
           rest == tasks[t].rest
       IN /\ state' = index_user_sheet(state, gid(g), tasks[t].user)
          /\ posts' = IF rest = "post" THEN Post(g, "roll") ELSE posts
          /\ tasks' = [tasks EXCEPT ![t] = Finished(tasks[t])]
          /\ last' = Event(g, IF rest = "raises" THEN "raised" ELSE "ok")
    /\ UNCHANGED <<key, api, narrator, heap, last_set, nevents>>
    /\ UNCHANGED start_vars

\* on_guild_channel_pins_update: on a text channel named ...-sheet the handler
\* is suspended at `await channel.pins()`; every other channel is ignored.
on_guild_channel_pins_update(g, is_sheet) ==
    /\ Running
    /\ nevents < MaxEvents
    /\ nevents' = nevents + 1
    /\ IF is_sheet
         THEN /\ tasks' = Append(tasks,
                    [NoTask EXCEPT !.kind = "pins", !.guild = g, !.pc = "fetch"])
              /\ last' = Event(g, "awaiting")
         ELSE /\ UNCHANGED tasks
              /\ last' = Event(g, "ignored")
    /\ UNCHANGED <<key, api, narrator, state, heap, posts, last_set>>
    /\ UNCHANGED start_vars

\* on_guild_channel_pins_update resumed with the pins, or with the exception
\* pins() raised (the handler prints it).  With pins, the first pin's author
\* nm is the user and the guild's entry is made (gstate_for).  In
\* index_user_sheet, fetch_pinned_sheet_texts reads the pins of a matching
\* channel only where permissions_for(...).read_message_history holds:
\* readable says that some matching channel passes that guard, and the
\* handler suspends again at `await ch.pins()`; with none the texts are
\* empty, the sheet is cached and saved and the handler ends, all before any
\* other handler runs.
pins_update_resume(t, pins_ok, has_pins, readable, nm) ==
    /\ Running
    /\ tasks[t].kind = "pins"
    /\ tasks[t].pc = "fetch"
    /\ LET g == tasks[t].guild
           k == gid(g)
       IN IF pins_ok /\ has_pins
            THEN IF readable
                   THEN /\ state' = G_state(k)
                        /\ heap' = G_heap(k)
                        /\ tasks' = [tasks EXCEPT ![t].pc = "index",
                                                  ![t].user = nm]
                        /\ last' = Event(g, "awaiting")
                   ELSE /\ state' = index_user_sheet(G_state(k), k, nm)
                        /\ heap' = G_heap(k)
                        /\ tasks' = [tasks EXCEPT ![t] = Finished(tasks[t])]
                        /\ last' = Event(g, "ok")
            ELSE /\ tasks' = [tasks EXCEPT ![t] = Finished(tasks[t])]
                 /\ last' = Event(g, "ignored")
                 /\ UNCHANGED <<state, heap>>
    /\ UNCHANGED <<key, api, narrator, posts, last_set, nevents>>
    /\ UNCHANGED start_vars

\* on_guild_channel_pins_update resumed in index_user_sheet: the sheet of the
\* first pin's author is cached.
pins_update_index(t) ==
    /\ Running
    /\ tasks[t].kind = "pins"
    /\ tasks[t].pc = "index"
    /\ state' = index_user_sheet(state, gid(tasks[t].guild), tasks[t].user)
    /\ tasks' = [tasks EXCEPT ![t] = Finished(tasks[t])]
    /\ last' = Event(tasks[t].guild, "ok")
    /\ UNCHANGED <<key, api, narrator, heap, posts, last_set, nevents>>
    /\ UNCHANGED start_vars

\* post_roll_and_ack: the detail lines go to #dice-checks, or, without that
\* channel, to the channel the command was used in (in_log: that channel is
\* the guild's log channel).  The value is what the guild's log channel holds
\* afterwards.
post_roll_and_ack(g, dice, in_log) ==
    IF dice = "log" \/ (dice = "none" /\ in_log)
      THEN Post(g, "roll")
      ELSE posts

\* check_cmd: roll d20 with the modifier, which raises for a die of no sides,
\* and post it.  In a direct message there is no guild to look the channel
\* up in and the handler raises.
check_cmd(g, r) ==
    /\ Running
    /\ nevents < MaxEvents
    /\ nevents' = nevents + 1
    /\ IF r.bad_roll \/ ~r.guild
         THEN /\ last' = Event(g, "raised")
              /\ UNCHANGED posts
         ELSE /\ posts' = post_roll_and_ack(g, r.dice, r.in_log)
              /\ last' = Event(g, "ok")
    /\ UNCHANGED <<key, api, narrator, state, heap, tasks, last_set>>
    /\ UNCHANGED start_vars

\* attack_cmd: roll the attack and the damage, either of which raises for a
\* die of no sides, and post them as check_cmd does.
attack_cmd(g, r) ==
    /\ Running
    /\ nevents < MaxEvents
    /\ nevents' = nevents + 1
    /\ IF r.bad_roll \/ ~r.guild
         THEN /\ last' = Event(g, "raised")
              /\ UNCHANGED posts
         ELSE /\ posts' = post_roll_and_ack(g, r.dice, r.in_log)
              /\ last' = Event(g, "ok")
    /\ UNCHANGED <<key, api, narrator, state, heap, tasks, last_set>>
    /\ UNCHANGED start_vars

\* Variant of start_cmd that opens the scene before it checks the caller.
start_cmd_unchecked(g, inter, title, log) ==
    /\ Running
    /\ nevents < MaxEvents
    /\ nevents' = nevents + 1
    /\ inter.guild
    /\ LET k == gid(g)
           st == G_state(k)
           h == G_heap(k)
       IN /\ state' = [st EXCEPT ![k].scene = Len(h.dicts) + 1]
          /\ heap' = [dicts |-> Append(h.dicts,
                                   [title |-> title, list |-> Len(h.seqs) + 1]),
                      seqs |-> Append(h.seqs, <<>>)]
          /\ IF is_gm(inter)
               THEN /\ posts' = IF log = "sent"
                                  THEN [posts EXCEPT ![g] = Append(@,
                                          [kind |-> "start", by |-> 0])]
                                  ELSE posts
                    /\ last' = Event(g, IF log = "refused"
                                          THEN "raised" ELSE "ok")
               ELSE /\ last' = Event(g, "refused")
                    /\ UNCHANGED posts
    /\ UNCHANGED <<key, api, narrator, tasks, last_set>>
    /\ UNCHANGED start_vars

\* start_cmd: GM only.  After the defer, replace the current scene by a new
\* one (new title, new empty action list) and announce it in #adventure-log
\* when that channel exists.
start_cmd(g, inter, title, log) ==
    /\ Running
    /\ nevents < MaxEvents
    /\ nevents' = nevents + 1
    /\ IF ~is_gm(inter)
         THEN /\ last' = Event(g, "refused")
              /\ UNCHANGED <<state, heap, posts>>
         ELSE IF ~inter.guild
         THEN /\ last' = Event(g, "raised")
              /\ UNCHANGED <<state, heap, posts>>
         ELSE LET k == gid(g)
                  st == G_state(k)
                  h == G_heap(k)
              IN /\ state' = [st EXCEPT ![k].scene = Len(h.dicts) + 1]
                 /\ heap' = [dicts |-> Append(h.dicts,
                                [title |-> title, list |-> Len(h.seqs) + 1]),
                             seqs |-> Append(h.seqs, <<>>)]
                 /\ posts' = IF log = "sent"
                               THEN [posts EXCEPT ![g] = Append(@,
                                       [kind |-> "start", by |-> 0])]
                               ELSE posts
                 /\ last' = Event(g, IF log = "refused"
                                       THEN "raised" ELSE "ok")
    /\ UNCHANGED <<key, api, narrator, tasks, last_set>>
    /\ UNCHANGED start_vars

\* narration_cmd: GM only.  Set the guild's ai_narration setting.
narration_cmd(g, inter, enable) ==
    /\ Running
    /\ nevents < MaxEvents
    /\ nevents' = nevents + 1
    /\ IF ~is_gm(inter)
         THEN /\ last' = Event(g, "refused")
              /\ UNCHANGED <<state, heap, last_set>>
         ELSE IF ~inter.guild
         THEN /\ last' = Event(g, "raised")
              /\ UNCHANGED <<state, heap, last_set>>
         ELSE LET k == gid(g)
                  st == G_state(k)
              IN /\ state' = [st EXCEPT ![k].ai = enable]
                 /\ heap' = G_heap(k)
                 /\ last_set' = [last_set EXCEPT ![g] =
                                    IF enable THEN "on" ELSE "off"]
                 /\ last' = Event(g, "ok")
    /\ UNCHANGED <<key, api, narrator, posts, tasks>>
    /\ UNCHANGED start_vars

\* recap_cmd: read the guild's archive (its entry is created when absent).
recap_cmd(g, in_guild) ==
    /\ Running
    /\ nevents < MaxEvents
    /\ nevents' = nevents + 1
    /\ IF ~in_guild
         THEN /\ last' = Event(g, "raised")
              /\ UNCHANGED <<state, heap>>
         ELSE /\ state' = G_state(gid(g))
              /\ heap' = G_heap(gid(g))
              /\ last' = Event(g, "ok")
    /\ UNCHANGED <<key, api, narrator, posts, tasks, last_set>>
    /\ UNCHANGED start_vars

\* scene_status_cmd: GM only.  Read the current scene (the guild's entry is
\* created when absent) and send it to the caller.
scene_status_cmd(g, inter) ==
    /\ Running
    /\ nevents < MaxEvents
    /\ nevents' = nevents + 1
    /\ IF ~is_gm(inter)
         THEN /\ last' = Event(g, "refused")
              /\ UNCHANGED <<state, heap>>
         ELSE IF ~inter.guild
         THEN /\ last' = Event(g, "raised")
              /\ UNCHANGED <<state, heap>>
         ELSE /\ state' = G_state(gid(g))
              /\ heap' = G_heap(gid(g))
              /\ last' = Event(g, "ok")
    /\ UNCHANGED <<key, api, narrator, posts, tasks, last_set>>
    /\ UNCHANGED start_vars

\* resolve_cmd, up to its first await: `await inter.response.defer(...)`.
\* Anyone may resolve.  In a direct message the handler raises right after the
\* defer (inter.guild is None) and has done nothing.
resolve_cmd(g, in_guild) ==
    /\ Running
    /\ nevents < MaxEvents
    /\ nevents' = nevents + 1
    /\ IF ~in_guild
         THEN /\ last' = Event(g, "raised")
              /\ UNCHANGED tasks
         ELSE /\ tasks' = Append(tasks,
                    [NoTask EXCEPT !.kind = "resolve", !.guild = g,
                                   !.pc = "deferred"])
              /\ last' = Event(g, "deferred")
    /\ UNCHANGED <<key, api, narrator, state, heap, posts, last_set>>
    /\ UNCHANGED start_vars

\* What resolve_cmd posts and remembers once it has a narration text: the
\* AI text when there is one, the cinematic fallback otherwise.
Narrated(t, text, acts) ==
    IF Falsy(text)
      THEN fallback_narrate(tasks[t].title, acts)
      ELSE [kind |-> "ai", title |-> tasks[t].title, lines |-> <<>>,
            text |-> text]

\* resolve_cmd after the defer: take the guild's entry, its current scene and
\* that scene's action list, decide the narration mode, and either wait for
\* the AI call or narrate at once and send the narration to the log channel.
\* `await log_channel.send(narration)` is not guarded: when Discord refuses
\* the message (send_ok FALSE) the exception leaves the handler, with nothing
\* posted and nothing archived.
resolve_narrate(t, send_ok) ==
    /\ Running
    /\ t \in DOMAIN tasks
    /\ tasks[t].kind = "resolve" /\ tasks[t].pc = "deferred"
    /\ LET g == tasks[t].guild
           k == gid(g)
           st == G_state(k)
           h == G_heap(k)
           d == st[k].scene
           l == h.dicts[d].list
           use_ai == st[k].ai /\ key
           held == [tasks[t] EXCEPT !.scene = d, !.list = l,
                                    !.title = h.dicts[d].title,
                                    !.ai_read = st[k].ai,
                                    !.set_at_read = last_set[g]]
           text == IF use_ai THEN ai_narrate(narrator, api).text ELSE None
           nar == IF Falsy(text)
                    THEN fallback_narrate(held.title, h.seqs[l])
                    ELSE [kind |-> "ai", title |-> held.title,
                          lines |-> <<>>, text |-> text]
       IN /\ state' = st
          /\ heap' = h
          /\ IF use_ai /\ narrator.use_ai /\ narrator.client
               THEN /\ tasks' = [tasks EXCEPT ![t] =
                                    [held EXCEPT !.pc = "ai_wait"]]
                    /\ UNCHANGED posts
               ELSE IF ~send_ok
               THEN /\ tasks' = [tasks EXCEPT ![t] =
                                    [held EXCEPT !.pc = "failed"]]
                    /\ UNCHANGED posts
               ELSE /\ tasks' = [tasks EXCEPT ![t] =
                                    [held EXCEPT !.pc = "sending",
                                                 !.narration = nar]]
                    /\ posts' = [posts EXCEPT ![g] = Append(@,
                                    [kind |-> nar.kind, by |-> t])]
    /\ last' = Event(tasks[t].guild, "step")
    /\ UNCHANGED <<key, api, narrator, last_set, nevents>>
    /\ UNCHANGED start_vars

\* resolve_cmd when the awaited ai_narrate returns: fall back when it gave
\* nothing, and send the narration to the log channel; a send that Discord
\* refuses (send_ok FALSE) raises out of the handler.
resolve_ai_done(t, send_ok) ==
    /\ Running
    /\ t \in DOMAIN tasks
    /\ tasks[t].kind = "resolve" /\ tasks[t].pc = "ai_wait"
    /\ LET g == tasks[t].guild
           r == ai_narrate(narrator, api)
           nar == Narrated(t, r.text, heap.seqs[tasks[t].list])
       IN IF r.raised \/ ~send_ok
            THEN /\ tasks' = [tasks EXCEPT ![t].pc = "failed"]
                 /\ UNCHANGED posts
            ELSE /\ tasks' = [tasks EXCEPT ![t].pc = "sending",
                                           ![t].narration = nar]
                 /\ posts' = [posts EXCEPT ![g] = Append(@,
                                 [kind |-> nar.kind, by |-> t])]
    /\ last' = Event(tasks[t].guild, "step")
    /\ UNCHANGED <<key, api, narrator, state, heap, last_set, nevents>>
    /\ UNCHANGED start_vars

\* The archive entry of a resolution.
Archived(t, title, narration, acts) ==
    [title |-> IF title = "" THEN "Scene" ELSE title,
     summary |-> summary_of(narration),
     actions |-> acts,
     by |-> t]

\* resolve_cmd after the send: archive the scene with the action list taken
\* before the waits, and give the current scene a new empty list.
resolve_archive(t) ==
    /\ Running
    /\ t \in DOMAIN tasks
    /\ tasks[t].kind = "resolve" /\ tasks[t].pc = "sending"
    /\ LET k == gid(tasks[t].guild)
           st == [state EXCEPT ![k].archive = Append(@,
                      Archived(t, tasks[t].title, tasks[t].narration,
                               heap.seqs[tasks[t].list]))]
       IN /\ state' = st
          /\ heap' = ResetActions(st, heap, k)
    /\ tasks' = [tasks EXCEPT ![t].pc = "done"]
    /\ last' = Event(tasks[t].guild, "step")
    /\ UNCHANGED <<key, api, narrator, posts, last_set, nevents>>
    /\ UNCHANGED start_vars

\* force_resolve_cmd, up to its first await: GM only, then the defer.  In a
\* direct message the handler raises right after the defer.
force_resolve_cmd(g, inter) ==
    /\ Running
    /\ nevents < MaxEvents
    /\ nevents' = nevents + 1
    /\ IF ~is_gm(inter)
         THEN /\ last' = Event(g, "refused")
              /\ UNCHANGED tasks
         ELSE IF ~inter.guild
         THEN /\ last' = Event(g, "raised")
              /\ UNCHANGED tasks
         ELSE /\ tasks' = Append(tasks,
                    [NoTask EXCEPT !.kind = "force", !.guild = g,
                                   !.pc = "deferred"])
              /\ last' = Event(g, "deferred")
    /\ UNCHANGED <<key, api, narrator, state, heap, posts, last_set>>
    /\ UNCHANGED start_vars

\* force_resolve_cmd after the defer: take the guild's entry and its current
\* scene, and send the GM's narration to the log channel; a send that
\* Discord refuses (send_ok FALSE) raises out of the handler.
force_resolve_post(t, send_ok) ==
    /\ Running
    /\ t \in DOMAIN tasks
    /\ tasks[t].kind = "force" /\ tasks[t].pc = "deferred"
    /\ LET g == tasks[t].guild
           k == gid(g)
           st == G_state(k)
           h == G_heap(k)
           d == st[k].scene
       IN /\ state' = st
          /\ heap' = h
          /\ IF send_ok
               THEN /\ tasks' = [tasks EXCEPT
                                    ![t].pc = "sending",
                                    ![t].scene = d,
                                    ![t].title = h.dicts[d].title,
                                    ![t].narration =
                                        [kind |-> "manual", title |-> "",
                                         lines |-> <<>>, text |-> "gm-text"]]
                    /\ posts' = [posts EXCEPT ![g] = Append(@,
                                    [kind |-> "manual", by |-> t])]
               ELSE /\ tasks' = [tasks EXCEPT
                                    ![t].pc = "failed",
                                    ![t].scene = d,
                                    ![t].title = h.dicts[d].title]
                    /\ UNCHANGED posts
    /\ last' = Event(tasks[t].guild, "step")
    /\ UNCHANGED <<key, api, narrator, last_set, nevents>>
    /\ UNCHANGED start_vars

\* force_resolve_cmd after the send: archive the scene taken before the wait
\* with the action list it holds now, and give the current scene a new list.
force_resolve_archive(t) ==
    /\ Running
    /\ t \in DOMAIN tasks
    /\ tasks[t].kind = "force" /\ tasks[t].pc = "sending"
    /\ LET k == gid(tasks[t].guild)
           d == tasks[t].scene
           st == [state EXCEPT ![k].archive = Append(@,
                      Archived(t, tasks[t].title, tasks[t].narration,
                               heap.seqs[heap.dicts[d].list]))]
       IN /\ state' = st
          /\ heap' = ResetActions(st, heap, k)
    /\ tasks' = [tasks EXCEPT ![t].pc = "done"]
    /\ last' = Event(tasks[t].guild, "step")
    /\ UNCHANGED <<key, api, narrator, posts, last_set, nevents>>
    /\ UNCHANGED start_vars

----------------------------------------------------------------------------
(* The specifications *)

\* The scene state while only the startup is looked at: the state file
\* loaded, no key, no event.
SceneIdle(f) ==
    /\ key = FALSE
    /\ api = "unused"
    /\ narrator = Narrator(FALSE, FALSE, FALSE)
    /\ state = load_state(f).state
    /\ heap = load_state(f).heap
    /\ posts = [g \in GuildIds |-> <<>>]
    /\ tasks = <<>>
    /\ last = NoEvent
    /\ last_set = [g \in GuildIds |-> "unset"]
    /\ nevents = 0

\* The startup state while only the scene commands are looked at: the first
\* process start, synced completely and ready.
StartReady ==
    /\ pc = "ready"
    /\ run = 1
    /\ token = TRUE
    /\ cfg_guild = NoGuild
    /\ remote = [s \in Scopes |-> IF s = Global THEN Declared ELSE {}]
    /\ calls = << [run |-> 1, op |-> "replace", scope |-> Global,
                   payload |-> Declared, ok |-> TRUE, records |-> Declared] >>
    /\ reports = << [run |-> 1, cmds |-> Declared,
                     line |-> [synced |-> Cardinality(Declared),
                               scope |-> Global]] >>
    /\ outcome = [r \in Runs |-> "none"]
    /\ tree = Declared
    /\ in_flight = 0
    /\ readies = 1

Init ==
    \E f \in StateFiles :
        /\ IF load_state(f).object THEN StartInit ELSE StartFailed
        /\ SceneIdle(f)

Next ==
    \/ main
    \/ setup_hook
    \/ on_ready
    \/ close
    \/ restart

Spec == Init /\ [][Next]_vars

InitScene ==
    \E f \in StateFiles :
        /\ load_state(f).object
        /\ StartReady
        /\ SceneInit(f)

NextScene ==
    \/ \E g \in GuildIds, m \in Messages, nm \in Players : on_message(g, m, nm)
    \/ \E t \in DOMAIN tasks : process_commands(t)
    \/ \E g \in GuildIds, a \in Acts, nm \in Players : act_cmd(g, a, nm)
    \/ \E t \in DOMAIN tasks : act_cmd_resume(t)
    \/ \E g \in GuildIds, is_sheet \in BOOLEAN :
          on_guild_channel_pins_update(g, is_sheet)
    \/ \E t \in DOMAIN tasks, pins_ok \in BOOLEAN, has_pins \in BOOLEAN,
          readable \in BOOLEAN,
          nm \in Players :
          pins_update_resume(t, pins_ok, has_pins, readable, nm)
    \/ \E t \in DOMAIN tasks : pins_update_index(t)
    \/ \E g \in GuildIds, r \in RollCmds : check_cmd(g, r)
    \/ \E g \in GuildIds, r \in RollCmds : attack_cmd(g, r)
    \/ \E g \in GuildIds, inter \in Interactions, title \in Titles,
          log \in LogChannels :
          start_cmd(g, inter, title, log)
    \/ \E g \in GuildIds, inter \in Interactions, enable \in BOOLEAN :
          narration_cmd(g, inter, enable)
    \/ \E g \in GuildIds, in_guild \in BOOLEAN : recap_cmd(g, in_guild)
    \/ \E g \in GuildIds, inter \in Interactions : scene_status_cmd(g, inter)
    \/ \E g \in GuildIds, in_guild \in BOOLEAN : resolve_cmd(g, in_guild)
    \/ \E t \in DOMAIN tasks, send_ok \in BOOLEAN : resolve_narrate(t, send_ok)
    \/ \E t \in DOMAIN tasks, send_ok \in BOOLEAN : resolve_ai_done(t, send_ok)
    \/ \E t \in DOMAIN tasks : resolve_archive(t)
    \/ \E g \in GuildIds, inter \in Interactions : force_resolve_cmd(g, inter)
    \/ \E t \in DOMAIN tasks, send_ok \in BOOLEAN :
          force_resolve_post(t, send_ok)
    \/ \E t \in DOMAIN tasks : force_resolve_archive(t)

SpecScene == InitScene /\ [][NextScene]_vars

\* The running bot when the first event since its start, a /resolve or a
\* /force-resolve in a guild, has taken the guild's entry and current scene
\* and is suspended at its `await log_channel.send(...)`; nevents counts the
\* events after it.  What the API would answer has no part in what is
\* archived: one answer is followed.
InitLoss ==
    /\ StartReady
    /\ key \in BOOLEAN
    /\ \E use_openai \in BOOLEAN, ctor_ok \in BOOLEAN :
          narrator = Narrator(use_openai, key, ctor_ok)
    /\ api = (IF narrator.client THEN "timeout" ELSE "unused")
    /\ \E f \in StateFiles, g \in GuildIds, kind \in {"resolve", "force"} :
          LET k == str(g)
              got == gstate_for(load_state(f).state, load_state(f).heap, k)
              d == got.state[k].scene
              l == got.heap.dicts[d].list
              title == got.heap.dicts[d].title
              use_ai == got.state[k].ai /\ key
              text == IF use_ai THEN ai_narrate(narrator, api).text ELSE None
              nar == IF kind = "force"
                       THEN [kind |-> "manual", title |-> "",
                             lines |-> <<>>, text |-> "gm-text"]
                     ELSE IF Falsy(text)
                       THEN fallback_narrate(title, got.heap.seqs[l])
                     ELSE [kind |-> "ai", title |-> title, lines |-> <<>>,
                           text |-> text]
              held == IF kind = "force"
                        THEN [NoTask EXCEPT !.scene = d, !.title = title]
                        ELSE [NoTask EXCEPT !.scene = d, !.list = l,
                                            !.title = title,
                                            !.ai_read = got.state[k].ai]
          IN /\ load_state(f).object
             /\ state = got.state
             /\ heap = got.heap
             /\ tasks = << [held EXCEPT !.kind = kind, !.guild = g,
                                        !.pc = "sending",
                                        !.narration = nar] >>
             /\ posts = [x \in GuildIds |->
                           IF x = g THEN << [kind |-> nar.kind, by |-> 1] >>
                           ELSE <<>>]
             /\ last = Event(g, "step")
    /\ last_set = [g \in GuildIds |-> "unset"]
    /\ nevents = 0

SpecLoss == InitLoss /\ [][NextScene]_vars


----------------------------------------------------------------------------
(* Vocabulary of the claims *)

\* The sync of process start r is over: its hook returned or raised.
HookOver(r) ==
    \/ r < run
    \/ /\ r = run
       /\ pc \in {"connected", "ready", "exited"}
       /\ outcome[r] \notin {"no_token", "import_error"}

\* The scope order the documented resolver gives for a configuration.
ExpectedScopes(cfg) ==
    IF cfg = NoGuild THEN <<Global>> ELSE <<Guild, Global>>

\* The replace call that produced report i.
CallOfReport(i) ==
    LET rc == ReplaceCallsOf(reports[i].run) IN rc[Len(rc)]

----------------------------------------------------------------------------
(* C2 *)

\* C2: a run issues at most max_attempts replace calls in total, whatever the
\* budget (any budget from 1 to the documented default), whatever scopes are
\* configured and whatever the platform answers.
C2_AttemptBound ==
    \A r \in Runs : \A budget \in 1..max_attempts :
        Len(ReplaceCallsOf(r)) <= budget

\* A run with a guild configured whose push came back empty, and which went
\* on to the ready state having pushed once.
C2_Witness ==
    /\ pc = "ready"
    /\ cfg_guild # NoGuild
    /\ Len(ReplaceCallsOf(run)) = 1
    /\ ReplaceCallsOf(run)[1].records = {}

----------------------------------------------------------------------------
(* C3 *)

\* C3 as stated: whenever a run ends successfully (at least one record came
\* back), the names of its final records are the declared names.
C3_SuccessNamesEqualDeclared ==
    \A i \in DOMAIN reports :
        reports[i].cmds # {} => reports[i].cmds = Declared

\* C3 amended: whenever a run ends successfully, its push carried the whole
\* declared set and the names of its final records differ from the declared
\* names by exactly the names the platform left out of its answer and the
\* undeclared names it added to it; so they are the declared names if and
\* only if the platform answered with exactly what was pushed.
C3_SuccessNamesDifferAsAnswered ==
    \A i \in DOMAIN reports :
        reports[i].cmds # {} =>
            LET c == CallOfReport(i)
            IN /\ c.payload = Declared
               /\ Declared \ reports[i].cmds = c.payload \ c.records
               /\ reports[i].cmds \ Declared = c.records \ c.payload
               /\ reports[i].cmds = Declared <=> c.records = c.payload

\* Two successful runs: one the platform answered with exactly the pushed
\* set, whose final records are the declared names; one it answered with a
\* declared name left out and an undeclared name added, whose final records
\* lack the one and hold the other, with the printed count unchanged.
C3_Witness ==
    \E i, j \in DOMAIN reports :
        /\ CallOfReport(i).records = CallOfReport(i).payload
        /\ reports[i].cmds = Declared
        /\ Stale \in reports[j].cmds
        /\ Cardinality(Declared \ reports[j].cmds) = 1
        /\ reports[j].line.synced = Cardinality(Declared)

----------------------------------------------------------------------------
(* C4 *)

\* C4: when replace returns every declared name except exactly one name n,
\* the report's discrepancy set is {n}.
C4_MissingNameReported ==
    \A i \in DOMAIN reports : \A n \in Declared :
        CallOfReport(i).records = Declared \ {n} =>
            /\ "discrepancies" \in DOMAIN reports[i].line
            /\ reports[i].line.discrepancies = {n}

----------------------------------------------------------------------------
(* C5 *)

\* C5: no replace on a scope is issued in a run before clear of that scope
\* has been invoked in the same run.
C5_ClearBeforeReplace ==
    \A i \in DOMAIN calls :
        calls[i].op = "replace" =>
            \E j \in 1..(i - 1) :
                /\ calls[j].op = "clear"
                /\ calls[j].scope = calls[i].scope
                /\ calls[j].run = calls[i].run

----------------------------------------------------------------------------
(* C6 *)

\* C6: a remote call that fails with RemoteUnavailable is handled locally:
\* it does not end the process start it happened in with an error.
C6_RemoteFailureHandledLocally ==
    \A i \in DOMAIN calls :
        ~calls[i].ok => outcome[calls[i].run] # "run_error"

----------------------------------------------------------------------------
(* C7 *)

\* C7: when every replace call of a run returned zero records, the run ends
\* without raising after exactly max_attempts attempts, with no final records.
C7_EmptyRunExhaustsBudget ==
    \A r \in Runs :
        LET rc == ReplaceCallsOf(r)
        IN (/\ HookOver(r)
            /\ rc # <<>>
            /\ \A k \in DOMAIN rc : rc[k].ok /\ rc[k].records = {})
           => /\ Len(rc) = max_attempts
              /\ outcome[r] # "run_error"
              /\ \A k \in DOMAIN ReportsOf(r) : ReportsOf(r)[k].cmds = {}

----------------------------------------------------------------------------
(* C8 *)

\* C8: with a guild configured (and max_attempts >= 2), a first attempt that
\* returns no records is followed by a Global attempt, and when that one
\* returns exactly the declared names the run stops there: two attempts,
\* final scope Global.
C8_GuildEmptyThenGlobalSucceeds ==
    \A r \in Runs :
        LET rc == ReplaceCallsOf(r)
        IN (/\ HookOver(r)
            /\ cfg_guild # NoGuild
            /\ rc # <<>>
            /\ rc[1].ok /\ rc[1].records = {})
           => /\ rc[1].scope = Guild
              /\ Len(rc) >= 2
              /\ rc[2].scope = Global
              /\ (rc[2].records = Declared => Len(rc) = 2)

----------------------------------------------------------------------------
(* C9 *)

\* C9 as stated: two runs in succession with the same declared set report
\* the same final record names.
C9_TwoRunsSameNames ==
    \A i, j \in DOMAIN reports : reports[i].cmds = reports[j].cmds

\* C9 amended: two runs in succession push the same declared set, and report
\* the same final record names whenever the platform returns the same
\* records for both pushes.
C9_TwoRunsSameNamesForSameAnswers ==
    \A i, j \in DOMAIN reports :
        /\ CallOfReport(i).payload = CallOfReport(j).payload
        /\ (CallOfReport(i).records = CallOfReport(j).records
               => reports[i].cmds = reports[j].cmds)

\* Two runs, both answered with every declared command.
C9_Witness ==
    /\ Len(reports) = 2
    /\ reports[1].run = 1 /\ reports[2].run = 2
    /\ CallOfReport(1).records = Declared
    /\ CallOfReport(2).records = Declared
    /\ reports[1].cmds = reports[2].cmds

----------------------------------------------------------------------------
(* C10 *)

\* C10: the scope list is [Guild(id), Global] when a guild id is configured
\* and [Global] otherwise, and the startup sync attempts scopes in that order.
C10_ScopesInConfiguredOrder ==
    \A r \in Runs :
        LET rc == ReplaceCallsOf(r)
        IN rc # <<>> =>
              /\ resolve_scopes(cfg_guild) = ExpectedScopes(cfg_guild)
              /\ rc[1].scope = Head(ExpectedScopes(cfg_guild))

----------------------------------------------------------------------------
(* C11 *)

\* C11: every outcome the startup sync hands to logging carries the number of
\* commands live in the scope, the set of discrepancies and the number of
\* attempts used.
C11_ReportCarriesDiagnostics ==
    \A i \in DOMAIN reports :
        /\ "synced" \in DOMAIN reports[i].line
        /\ "discrepancies" \in DOMAIN reports[i].line
        /\ "attempts" \in DOMAIN reports[i].line

----------------------------------------------------------------------------
(* C12 *)

\* C12: at most one sync run is in flight at any time, whatever the sequence
\* of startup triggers (process starts, restarts, READY events).
C12_OneRunInFlight == in_flight <= 1

\* The sync of a second process start is in flight, after the first start's
\* sync returned and its READY events were handled.
C12_Witness ==
    /\ run = 2
    /\ pc = "setup_hook"
    /\ in_flight = 1
    /\ ReportsOf(1) # <<>>

----------------------------------------------------------------------------
(* C16 *)

\* C16: within a run, a replace call that returned at least one record is the
\* run's last replace call, whether or not the returned names are the
\* declared names.
C16_NoReplaceAfterRecords ==
    \A r \in Runs :
        LET rc == ReplaceCallsOf(r)
        IN \A i \in DOMAIN rc : rc[i].records # {} => i = Len(rc)

\* A run whose only push returned some but not all declared names, and which
\* went on to the ready state.
C16_Witness ==
    /\ pc = "ready"
    /\ Len(ReplaceCallsOf(run)) = 1
    /\ ReplaceCallsOf(run)[1].records # {}
    /\ ReplaceCallsOf(run)[1].records # Declared

----------------------------------------------------------------------------
(* C17 *)

\* C17: the first replace call of a run comes after a wait of at least
\* propagation_delay in that run, and every later replace call of the run
\* comes after a wait that follows the previous replace call.
C17_ReplaceAfterWaits ==
    \A r \in Runs :
        \A i \in DOMAIN calls :
            (calls[i].run = r /\ calls[i].op = "replace") =>
                \E j \in 1..(i - 1) :
                    /\ calls[j].run = r
                    /\ calls[j].op = "sleep"
                    /\ \A m \in (j + 1)..(i - 1) :
                          calls[m].run = r => calls[m].op # "replace"
                    /\ (\A m \in 1..(j - 1) :
                           calls[m].run = r => calls[m].op # "replace")
                          => ("secs" \in DOMAIN calls[j]
                              /\ calls[j].secs >= propagation_delay)

----------------------------------------------------------------------------
(* C19 *)

\* C19: the command set on the tree is the declared set at every point of
\* every run of a process whose import succeeded (one whose import failed
\* has no bot and makes no run), and every replace call pushes the declared
\* set.
C19_DeclaredSetFixed ==
    /\ outcome[run] # "import_error" => tree = Declared
    /\ \A i \in DOMAIN calls :
          calls[i].op = "replace" => calls[i].payload = Declared

\* Two runs have pushed, the second one's sync is over, and the tree holds
\* the declared set.
C19_Witness ==
    /\ run = 2
    /\ HookOver(2)
    /\ ReplaceCallsOf(1) # <<>>
    /\ ReplaceCallsOf(2) # <<>>
    /\ tree = Declared

----------------------------------------------------------------------------
(* Vocabulary of the scene claims *)

\* The posts that invocation t sent to its guild's log channel.
PostsOf(t) ==
    LET p == posts[tasks[t].guild]
    IN { i \in DOMAIN p : p[i].by = t }

\* The scene entries that invocation t archived, among those of its guild.
ArchivedBy(t) ==
    LET a == state[str(tasks[t].guild)].archive
    IN { i \in DOMAIN a : a[i].by = t }

\* Invocation t of /resolve met a case in which the fallback is documented:
\* AI narration off for the guild, no API key, or an AI call that raises,
\* times out or returns nothing.
FallbackCase(t) ==
    \/ ~tasks[t].ai_read
    \/ ~key
    \/ api \in {"raise", "timeout", "empty"}

\* Invocation t of /resolve met the case in which the AI text is documented:
\* AI narration on for the guild, a key, a client, and an API that answers
\* with a text in time.
AiCase(t) ==
    /\ tasks[t].ai_read
    /\ key
    /\ narrator.use_ai /\ narrator.client
    /\ api = "text"

\* What is kept in memory for the guild filed under key k: its entry, its
\* current scene and that scene's actions.
GuildView(k) ==
    IF ~state[k].present THEN <<state[k]>>
    ELSE <<state[k], heap.dicts[state[k].scene],
           heap.seqs[heap.dicts[state[k].scene].list]>>

----------------------------------------------------------------------------
(* C13 *)

\* C13: an invocation of /resolve that got to the narration step never fails;
\* it has posted nothing and archived nothing before it narrates, exactly one
\* narration and no entry once it has sent, and exactly one narration and one
\* entry once it is done; in the documented fallback cases that narration,
\* posted and archived, is the cinematic fallback.
C13_ResolvePostsAndArchivesOnce ==
    \A t \in DOMAIN tasks :
        tasks[t].kind = "resolve" =>
            LET g == tasks[t].guild
                np == Cardinality(PostsOf(t))
                na == Cardinality(ArchivedBy(t))
            IN /\ tasks[t].pc # "failed"
               /\ tasks[t].pc \in {"deferred", "ai_wait"} => (np = 0 /\ na = 0)
               /\ tasks[t].pc = "sending" => (np = 1 /\ na = 0)
               /\ tasks[t].pc = "done" => (np = 1 /\ na = 1)
               /\ (tasks[t].pc \in {"sending", "done"} /\ FallbackCase(t)) =>
                     /\ \A i \in PostsOf(t) : posts[g][i].kind = "fallback"
                     /\ \A i \in ArchivedBy(t) :
                           state[str(g)].archive[i].summary.of.kind = "fallback"

----------------------------------------------------------------------------
(* C14 *)

\* C14: when AI narration is on for the guild, a key is set, the client was
\* created and the API answers with a non-empty text in time, /resolve posts
\* and archives the AI text, not the fallback.
C14_AiTextPostedAndArchived ==
    \A t \in DOMAIN tasks :
        (tasks[t].kind = "resolve" /\ tasks[t].pc \in {"sending", "done"}
         /\ AiCase(t)) =>
            /\ \A i \in PostsOf(t) : posts[tasks[t].guild][i].kind = "ai"
            /\ \A i \in ArchivedBy(t) :
                  state[str(tasks[t].guild)].archive[i].summary.of.kind = "ai"

----------------------------------------------------------------------------
(* C15 *)

\* C15: a step in which a GM-only command refuses its caller leaves the
\* guild entries, the scenes, the action lists, the archives, the log
\* channels and the pending invocations as they were.
C15_RefusalChangesNothing ==
    [][last'.reply = "refused" =>
          UNCHANGED <<state, heap, posts, tasks, last_set>>]_vars

\* A caller was just refused in a guild that has no entry and no post.
C15_Witness ==
    /\ last.reply = "refused"
    /\ last.guild \in GuildIds
    /\ ~state[str(last.guild)].present
    /\ posts[last.guild] = <<>>

----------------------------------------------------------------------------
(* C20 *)

\* C20: a step handled for one guild leaves what is kept for every other
\* guild, and that guild's log channel, as they were; and the setting a
\* /resolve read is the one /narration last set in its guild; where none
\* has been set, it is the value the guild's entry holds (loaded from the
\* state file, or the default of a new entry).
C20_GuildsIsolated ==
    /\ [][\A g \in GuildIds :
             g # last'.guild =>
                /\ GuildView(str(g))' = GuildView(str(g))
                /\ posts'[g] = posts[g]]_vars
    /\ [](\A t \in DOMAIN tasks :
             (tasks[t].kind = "resolve" /\ tasks[t].pc # "deferred") =>
                 CASE tasks[t].set_at_read = "on" -> tasks[t].ai_read
                   [] tasks[t].set_at_read = "off" -> ~tasks[t].ai_read
                   [] OTHER ->
                        last_set[tasks[t].guild] = "unset" =>
                            tasks[t].ai_read = state[str(tasks[t].guild)].ai)

\* /narration turned AI narration off in one guild and a /resolve there has
\* read it off and ended, while another guild's entry, loaded from the state
\* file with AI narration on and never set since, still holds that value
\* and its logged action.
C20_Witness ==
    \E t \in DOMAIN tasks : \E b \in GuildIds :
        /\ tasks[t].kind = "resolve" /\ tasks[t].pc = "done"
        /\ b # tasks[t].guild
        /\ tasks[t].set_at_read = "off"
        /\ ~tasks[t].ai_read
        /\ last_set[b] = "unset"
        /\ state[str(b)].present /\ state[str(b)].ai
        /\ heap.dicts[state[str(b)].scene].title = "Old"
        /\ Len(heap.seqs[heap.dicts[state[str(b)].scene].list]) = 1

----------------------------------------------------------------------------
(* C21 *)

\* C21: when a /resolve or /force-resolve archives and resets, every action
\* that the reset removes from the guild's current scene is among the
\* actions of the scene entry this resolution archives.
C21_NoActionLostByResolution ==
    [][\A t \in DOMAIN tasks :
          (tasks[t].pc = "sending" /\ tasks'[t].pc = "done") =>
              LET k == str(tasks[t].guild)
                  removed == heap.seqs[heap.dicts[state[k].scene].list]
                  entry == state'[k].archive[Len(state'[k].archive)]
              IN \A i \in DOMAIN removed :
                    \E j \in DOMAIN entry.actions :
                        entry.actions[j] = removed[i]]_vars
============================================================================
